---------------------------- MODULE Spec2Model ----------------------------
(***************************************************************************)
(* Model of Source/SGDLib/Criterion.h: the value type EpochCriterion (an   *)
(* aggregate criterion value together with its sample count) and the       *)
(* CriterionAccumulator that accumulates N criteria in a [1 x N] matrix    *)
(* and an N-vector of sample counts.                                       *)
(*                                                                         *)
(* Floating-point values are modelled by a small binary format with        *)
(* round-to-nearest-even, overflow to infinity, NaN and both infinities;   *)
(* size_t is modelled by unsigned integers of SizeWidth bits.              *)
(***************************************************************************)
EXTENDS Integers, Sequences, FiniteSets, TLC

\* ------------------------------------------------------------------------
\* Bounds of the model
\* ------------------------------------------------------------------------
Prec == 2          \* mantissa bits of the modelled floating-point format
MaxExp == 2        \* largest exponent of the modelled floating-point format
SizeWidth == 2     \* bits of the modelled size_t
NumCriteria == 2   \* N, the numCriteria given to the constructor
MaxCalls == 2      \* Add/Assign calls made on one accumulator

\* ------------------------------------------------------------------------
\* double / ElemType arithmetic (IEEE 754, round to nearest, ties to even)
\* ------------------------------------------------------------------------
RECURSIVE Pow2(_)
Pow2(n) == IF n = 0 THEN 1 ELSE 2 * Pow2(n - 1)

Abs(x) == IF x < 0 THEN -x ELSE x

RECURSIVE GCD(_, _)
GCD(a, b) == IF b = 0 THEN a ELSE GCD(b, a % b)

\* a finite value n/d; the values of the format itself have d = 1
Fin(n) == [k |-> "fin", n |-> n, d |-> 1]
NaN == [k |-> "nan", n |-> 0, d |-> 1]
PInf == [k |-> "inf", n |-> 1, d |-> 1]
NInf == [k |-> "inf", n |-> -1, d |-> 1]
Zero == Fin(0)

\* magnitudes the format represents: m * 2^e with a Prec-bit mantissa
FinMags == {m * Pow2(e) : m \in 0..(Pow2(Prec) - 1), e \in 0..MaxExp}
OverflowMag == Pow2(Prec) * Pow2(MaxExp)
MaxFinite == (Pow2(Prec) - 1) * Pow2(MaxExp)
MaxMant == Pow2(Prec) - 1

SetMax(S) == CHOOSE x \in S : \A y \in S : y <= x
SetMin(S) == CHOOSE x \in S : \A y \in S : x <= y

\* the magnitude nearest to mag, ties to the even mantissa
RoundMag(mag) ==
    IF mag \in FinMags THEN mag
    ELSE IF mag >= OverflowMag THEN OverflowMag
    ELSE LET lo == SetMax({f \in FinMags : f < mag})
             hi == SetMin({f \in FinMags \cup {OverflowMag} : f > mag})
             gap == hi - lo
         IN  IF mag - lo < hi - mag THEN lo
             ELSE IF mag - lo > hi - mag THEN hi
             ELSE IF (lo \div gap) % 2 = 0 THEN lo ELSE hi

\* the exact integer x as a value of the format
RoundInt(x) ==
    LET r == RoundMag(Abs(x))
    IN  IF r = OverflowMag THEN (IF x < 0 THEN NInf ELSE PInf)
        ELSE Fin(IF x < 0 THEN -r ELSE r)

DAdd(x, y) ==
    IF x.k = "nan" \/ y.k = "nan" THEN NaN
    ELSE IF x.k = "inf" /\ y.k = "inf" THEN (IF x.n = y.n THEN x ELSE NaN)
    ELSE IF x.k = "inf" THEN x
    ELSE IF y.k = "inf" THEN y
    ELSE RoundInt(x.n + y.n)

DNeg(x) == IF x.k = "nan" THEN NaN ELSE [x EXCEPT !.n = -x.n]

DSub(x, y) == DAdd(x, DNeg(y))

Sign(n) == IF n < 0 THEN -1 ELSE 1

\* x / y for format values x and y; a finite quotient is kept as the exact
\* fraction in lowest terms
DDiv(x, y) ==
    IF x.k = "nan" \/ y.k = "nan" THEN NaN
    ELSE IF x.k = "inf" THEN (IF y.k = "inf" THEN NaN
                              ELSE IF y.n < 0 THEN DNeg(x) ELSE x)
    ELSE IF y.k = "inf" THEN Zero
    ELSE IF y.n = 0 THEN (IF x.n = 0 THEN NaN
                          ELSE IF x.n < 0 THEN NInf ELSE PInf)
    ELSE LET g == GCD(Abs(x.n), Abs(y.n))
             s == Sign(x.n) * Sign(y.n)
         IN  [k |-> "fin", n |-> s * (Abs(x.n) \div g), d |-> Abs(y.n) \div g]

\* size_t: unsigned, SizeWidth bits
SizeMod == Pow2(SizeWidth)
SizeMax == SizeMod - 1
SAdd(a, b) == (a + b) % SizeMod
SSub(a, b) == (a - b + SizeMod) % SizeMod

\* the conversion of a size_t operand to double
ToDouble(n) == RoundInt(n)

\* ------------------------------------------------------------------------
\* struct EpochCriterion : std::pair<double, size_t>
\* ------------------------------------------------------------------------
EpochCriterion(aggregateCriterionValue, aggregateSampleCount) ==
    [first |-> aggregateCriterionValue, second |-> aggregateSampleCount]

\* Average() without the guard on the count
Average_Unguarded(e) == DDiv(e.first, ToDouble(e.second))

Average(e) == IF e.second > 0 THEN DDiv(e.first, ToDouble(e.second)) ELSE Zero

\* IsNan() testing "not finite" instead of "not a number"
IsNan_NotFinite(e) == e.first.k # "fin"

IsNan(e) == e.first.k = "nan"

\* operator- subtracting the values only
Minus_ValueOnly(e, other) ==
    EpochCriterion(DSub(e.first, other.first), e.second)

Minus(e, other) ==
    EpochCriterion(DSub(e.first, other.first), SSub(e.second, other.second))

\* operator+= adding the values only
PlusEq_ValueOnly(e, other) == [e EXCEPT !.first = DAdd(e.first, other.first)]

PlusEq(e, other) ==
    [e EXCEPT !.first = DAdd(e.first, other.first),
              !.second = SAdd(e.second, other.second)]

\* Infinity() built from numeric_limits<double>::max()
Infinity_MaxFinite == EpochCriterion(Fin(MaxFinite), 0)

Infinity == EpochCriterion(PInf, 0)

IsInfinity(e) == e.first = PInf


\* ------------------------------------------------------------------------
\* Inputs: the computation nodes handed to Add/Assign
\* ------------------------------------------------------------------------
Slots == 0..(NumCriteria - 1)

\* criterion values a node's Value()(0,0) may hold
InValues == {Fin(1), Fin(MaxFinite), NaN, PInf}
\* GetActualNumSamples() of a node's MBLayout
LayoutCounts == {SizeMax}
\* legacyNumSamples given by the caller
LegacyCounts == {1}

\* criterion values of the nodes that have an MBLayout
LayoutValues == {Fin(1), NaN}

\* a node: its 1x1 value, whether it has an MBLayout, and that layout's
\* actual number of samples (0 stands for "no layout to ask")
Nodes ==
    {[value |-> v, hasMBLayout |-> FALSE, actualNumSamples |-> 0] : v \in InValues}
    \cup {[value |-> v, hasMBLayout |-> TRUE, actualNumSamples |-> c] :
             v \in LayoutValues, c \in LayoutCounts}

\* the node standing at the other positions of the nodes vector: one that
\* differs from the node of slot i in its value, its layout and its count
OtherNode(node) ==
    IF node.hasMBLayout
    THEN [value |-> Fin(MaxMant), hasMBLayout |-> FALSE, actualNumSamples |-> 0]
    ELSE [value |-> NInf, hasMBLayout |-> TRUE, actualNumSamples |-> 2]

NoNode == [value |-> Zero, hasMBLayout |-> FALSE, actualNumSamples |-> 0]
NoCriterion == EpochCriterion(Zero, 0)

\* ------------------------------------------------------------------------
\* State
\* ------------------------------------------------------------------------
VARIABLES
    m_aggregateCriterionValues,  \* [1 x N] matrix, column i |-> element
    m_aggregateSampleCounts,     \* vector<size_t> of length N
    lastCall,                    \* the latest call made by the training loop
    ncalls,                      \* number of Add/Assign calls made
    base,                        \* per slot: contribution of the latest Assign
    assigned,                    \* per slot: has Assign been called on it
    hist,                        \* per slot: Add contributions since then
    snapA,                       \* a GetCriterion result the caller kept
    eca, ecb, ecc,               \* EpochCriterion operands
    ecop,                        \* latest EpochCriterion operation
    ecorigin,                    \* how eca was produced
    ecavg, ecflag,               \* results of Average and IsNan/IsInfinity
    ecold,                       \* the operands before operator+=
    ecm                          \* results of merging eca, ecb, ecc

accVars == <<m_aggregateCriterionValues, m_aggregateSampleCounts>>
ghostVars == <<ncalls, base, assigned, hist>>
callVars == <<lastCall, snapA>>
ecVars == <<eca, ecb, ecc, ecop, ecorigin, ecavg, ecflag, ecold, ecm>>
vars == <<m_aggregateCriterionValues, m_aggregateSampleCounts, lastCall,
          ncalls, base, assigned, hist, snapA,
          eca, ecb, ecc, ecop, ecorigin, ecavg, ecflag, ecold, ecm>>

NoCall == [op |-> "none", i |-> 0, node |-> NoNode, legacy |-> 0,
           before |-> NoCriterion, result |-> NoCriterion]
NoSnap == [valid |-> FALSE, i |-> 0, ec |-> NoCriterion, pos |-> 0]

\* ------------------------------------------------------------------------
\* Matrix<ElemType> element operations (Matrix.h)
\* ------------------------------------------------------------------------
\* c(0,j) = a(0,0)
AssignElementToElement(a, c, j) == [c EXCEPT ![j] = a]
\* c(0,j) += a(0,0)
AddElementToElement(a, c, j) == [c EXCEPT ![j] = DAdd(c[j], a)]

\* ------------------------------------------------------------------------
\* struct CriterionAccumulator
\* ------------------------------------------------------------------------
\* CriterionAccumulator(numCriteria, deviceId)
Constructed ==
    /\ m_aggregateCriterionValues = [j \in 0..(NumCriteria - 1) |-> Zero]
    /\ m_aggregateSampleCounts = [j \in 0..(NumCriteria - 1) |-> 0]

\* GetNumSamples() that never asks the layout
GetNumSamples_LegacyOnly(node, legacyNumSamples) == legacyNumSamples

GetNumSamples(node, legacyNumSamples) ==
    IF node.hasMBLayout THEN node.actualNumSamples ELSE legacyNumSamples

\* Accumulate() whose add branch overwrites the count
Accumulate_CountOverwritten(reset, nodes, i, legacyNumSamples) ==
    LET node == nodes[i]
    IN  IF reset
        THEN [values |-> AssignElementToElement(node.value,
                                                m_aggregateCriterionValues, i),
              counts |-> [m_aggregateSampleCounts EXCEPT
                             ![i] = GetNumSamples(nodes[i], legacyNumSamples)]]
        ELSE [values |-> AddElementToElement(node.value,
                                             m_aggregateCriterionValues, i),
              counts |-> [m_aggregateSampleCounts EXCEPT
                             ![i] = GetNumSamples(nodes[i], legacyNumSamples)]]

\* Accumulate() whose reset branch adds the element instead of assigning it
Accumulate_ResetAdds(reset, nodes, i, legacyNumSamples) ==
    LET node == nodes[i]
    IN  IF reset
        THEN [values |-> AddElementToElement(node.value,
                                             m_aggregateCriterionValues, i),
              counts |-> [m_aggregateSampleCounts EXCEPT
                             ![i] = GetNumSamples(nodes[i], legacyNumSamples)]]
        ELSE [values |-> AddElementToElement(node.value,
                                             m_aggregateCriterionValues, i),
              counts |-> [m_aggregateSampleCounts EXCEPT
                             ![i] = SAdd(@, GetNumSamples(nodes[i],
                                                          legacyNumSamples))]]

\* Accumulate() that writes the count of column 0 whatever i is
Accumulate_FirstCount(reset, nodes, i, legacyNumSamples) ==
    LET node == nodes[i]
    IN  IF reset
        THEN [values |-> AssignElementToElement(node.value,
                                                m_aggregateCriterionValues, i),
              counts |-> [m_aggregateSampleCounts EXCEPT
                             ![0] = GetNumSamples(nodes[i], legacyNumSamples)]]
        ELSE [values |-> AddElementToElement(node.value,
                                             m_aggregateCriterionValues, i),
              counts |-> [m_aggregateSampleCounts EXCEPT
                             ![0] = SAdd(@, GetNumSamples(nodes[i],
                                                          legacyNumSamples))]]

\* the matrix and the count vector left by Accumulate<reset>(nodes, i, legacy)
Accumulate(reset, nodes, i, legacyNumSamples) ==
    LET node == nodes[i]
        beta == IF reset THEN 0 ELSE 1
    IN  IF beta = 0
        THEN [values |-> AssignElementToElement(node.value,
                                                m_aggregateCriterionValues, i),
              counts |-> [m_aggregateSampleCounts EXCEPT
                             ![i] = GetNumSamples(nodes[i], legacyNumSamples)]]
        ELSE [values |-> AddElementToElement(node.value,
                                             m_aggregateCriterionValues, i),
              counts |-> [m_aggregateSampleCounts EXCEPT
                             ![i] = SAdd(@, GetNumSamples(nodes[i],
                                                          legacyNumSamples))]]

GetCriterion(i) ==
    EpochCriterion(m_aggregateCriterionValues[i], m_aggregateSampleCounts[i])

\* the contribution (value, count) a call brings to slot i
Contribution(node, legacy) ==
    EpochCriterion(node.value,
                   IF node.hasMBLayout THEN node.actualNumSamples ELSE legacy)

Add(nodes, i, legacyNumSamples) ==
    /\ ncalls < MaxCalls
    /\ i \in DOMAIN nodes
    /\ i \in DOMAIN m_aggregateCriterionValues
    /\ i \in DOMAIN m_aggregateSampleCounts
    /\ LET r == Accumulate(FALSE, nodes, i, legacyNumSamples)
       IN  /\ m_aggregateCriterionValues' = r.values
           /\ m_aggregateSampleCounts' = r.counts
    /\ lastCall' = [op |-> "Add", i |-> i, node |-> nodes[i],
                    legacy |-> legacyNumSamples, before |-> GetCriterion(i),
                    result |-> NoCriterion]
    /\ ncalls' = ncalls + 1
    /\ hist' = [hist EXCEPT
                   ![i] = Append(@, Contribution(nodes[i], legacyNumSamples))]
    /\ UNCHANGED <<base, assigned, snapA, ecVars>>

Assign(nodes, i, legacyNumSamples) ==
    /\ ncalls < MaxCalls
    /\ i \in DOMAIN nodes
    /\ i \in DOMAIN m_aggregateCriterionValues
    /\ i \in DOMAIN m_aggregateSampleCounts
    /\ LET r == Accumulate(TRUE, nodes, i, legacyNumSamples)
       IN  /\ m_aggregateCriterionValues' = r.values
           /\ m_aggregateSampleCounts' = r.counts
    /\ lastCall' = [op |-> "Assign", i |-> i, node |-> nodes[i],
                    legacy |-> legacyNumSamples, before |-> GetCriterion(i),
                    result |-> NoCriterion]
    /\ ncalls' = ncalls + 1
    /\ base' = [base EXCEPT ![i] = Contribution(nodes[i], legacyNumSamples)]
    /\ assigned' = [assigned EXCEPT ![i] = TRUE]
    /\ hist' = [hist EXCEPT ![i] = <<>>]
    /\ snapA' = IF snapA.valid /\ snapA.i = i THEN NoSnap ELSE snapA
    /\ UNCHANGED ecVars

\* GetCriterion(i) that clears the slot it has read
GetCriterionCall_Resetting(i, keep) ==
    /\ i \in DOMAIN m_aggregateCriterionValues
    /\ i \in DOMAIN m_aggregateSampleCounts
    /\ lastCall' = [op |-> "GetCriterion", i |-> i, node |-> NoNode,
                    legacy |-> 0, before |-> GetCriterion(i),
                    result |-> GetCriterion(i)]
    /\ m_aggregateCriterionValues' = [m_aggregateCriterionValues EXCEPT ![i] = Zero]
    /\ m_aggregateSampleCounts' = [m_aggregateSampleCounts EXCEPT ![i] = 0]
    /\ snapA' = IF keep
                THEN [valid |-> TRUE, i |-> i, ec |-> GetCriterion(i),
                      pos |-> Len(hist[i])]
                ELSE snapA
    /\ UNCHANGED <<ghostVars, ecVars>>

\* GetCriterion(i); keep: the caller keeps the result as its earlier snapshot
GetCriterionCall(i, keep) ==
    /\ i \in DOMAIN m_aggregateCriterionValues
    /\ i \in DOMAIN m_aggregateSampleCounts
    /\ lastCall' = [op |-> "GetCriterion", i |-> i, node |-> NoNode,
                    legacy |-> 0, before |-> GetCriterion(i),
                    result |-> GetCriterion(i)]
    /\ snapA' = IF keep
                THEN [valid |-> TRUE, i |-> i, ec |-> GetCriterion(i),
                      pos |-> Len(hist[i])]
                ELSE snapA
    /\ UNCHANGED <<accVars, ghostVars, ecVars>>

\* the caller subtracts its earlier snapshot of slot i from the one just read
DeltaCall ==
    /\ lastCall.op = "GetCriterion"
    /\ snapA.valid
    /\ snapA.i = lastCall.i
    /\ lastCall' = [lastCall EXCEPT !.op = "Delta",
                                    !.before = lastCall.result,
                                    !.result = Minus(lastCall.result, snapA.ec)]
    /\ UNCHANGED <<accVars, ghostVars, snapA, ecVars>>

\* the nodes vector: the node of slot i and another node everywhere else
NodesVector(i, node) == [j \in Slots |-> IF j = i THEN node ELSE OtherNode(node)]

AddStep ==
    \E i \in Slots, node \in Nodes, legacy \in LegacyCounts :
        Add(NodesVector(i, node), i, legacy)

AssignStep ==
    \E i \in Slots, node \in Nodes, legacy \in LegacyCounts :
        Assign(NodesVector(i, node), i, legacy)

GetCriterionStep == \E i \in Slots, keep \in BOOLEAN : GetCriterionCall(i, keep)

\* ------------------------------------------------------------------------
\* EpochCriterion operations applied to given operands
\* ------------------------------------------------------------------------
ECValues == {Zero, Fin(1), Fin(MaxFinite), Fin(-MaxFinite), NaN, PInf, NInf}
ECCounts == {0, 1, SizeMax}
ECInputs == {EpochCriterion(v, c) : v \in ECValues, c \in ECCounts}

NoMerge == [ab |-> NoCriterion, ba |-> NoCriterion,
            ab_c |-> NoCriterion, a_bc |-> NoCriterion]

\* r = e.Average()
ApplyAverage ==
    /\ ecop \in {"none", "Infinity", "PlusEq"}
    /\ ecavg' = Average(eca)
    /\ ecop' = "Average"
    /\ UNCHANGED <<accVars, ghostVars, callVars,
                   eca, ecb, ecc, ecorigin, ecflag, ecold, ecm>>

\* f = e.IsNan()
ApplyIsNan ==
    /\ ecop \in {"none", "Infinity", "PlusEq"}
    /\ ecflag' = IsNan(eca)
    /\ ecop' = "IsNan"
    /\ UNCHANGED <<accVars, ghostVars, callVars,
                   eca, ecb, ecc, ecorigin, ecavg, ecold, ecm>>

\* f = e.IsInfinity()
ApplyIsInfinity ==
    /\ ecop \in {"none", "Infinity", "PlusEq"}
    /\ ecflag' = IsInfinity(eca)
    /\ ecop' = "IsInfinity"
    /\ UNCHANGED <<accVars, ghostVars, callVars,
                   eca, ecb, ecc, ecorigin, ecavg, ecold, ecm>>

\* e = EpochCriterion::Infinity()
ApplyInfinity ==
    /\ ecop = "none"
    /\ eca' = Infinity
    /\ ecorigin' = "Infinity"
    /\ ecop' = "Infinity"
    /\ UNCHANGED <<accVars, ghostVars, callVars,
                   ecb, ecc, ecavg, ecflag, ecold, ecm>>

\* a += b
ApplyPlusEq ==
    /\ ecop = "none"
    /\ eca' = PlusEq(eca, ecb)
    /\ ecold' = <<eca, ecb>>
    /\ ecorigin' = "PlusEq"
    /\ ecop' = "PlusEq"
    /\ UNCHANGED <<accVars, ghostVars, callVars,
                   ecb, ecc, ecavg, ecflag, ecm>>

\* the three operands merged with += in both orders and both groupings
ApplyMerge ==
    /\ ecop = "none"
    /\ ecm' = [ab |-> PlusEq(eca, ecb),
               ba |-> PlusEq(ecb, eca),
               ab_c |-> PlusEq(PlusEq(eca, ecb), ecc),
               a_bc |-> PlusEq(eca, PlusEq(ecb, ecc))]
    /\ ecop' = "Merge"
    /\ UNCHANGED <<accVars, ghostVars, callVars,
                   eca, ecb, ecc, ecorigin, ecavg, ecflag, ecold>>

\* ------------------------------------------------------------------------
\* Specifications
\* ------------------------------------------------------------------------
AccumulatorInit ==
    /\ Constructed
    /\ lastCall = NoCall
    /\ ncalls = 0
    /\ base = [j \in Slots |-> NoCriterion]
    /\ assigned = [j \in Slots |-> FALSE]
    /\ hist = [j \in Slots |-> <<>>]
    /\ snapA = NoSnap

ECResultsInit ==
    /\ ecop = "none"
    /\ ecorigin = "input"
    /\ ecavg = Zero
    /\ ecflag = FALSE
    /\ ecold = <<NoCriterion, NoCriterion>>
    /\ ecm = NoMerge

\* one accumulator driven by the training loop
Init ==
    /\ AccumulatorInit
    /\ eca = NoCriterion /\ ecb = NoCriterion /\ ecc = NoCriterion
    /\ ECResultsInit

Next == AddStep \/ AssignStep \/ GetCriterionStep \/ DeltaCall

Spec == Init /\ [][Next]_vars

\* EpochCriterion operations on operands drawn from ECInputs
InitEC ==
    /\ AccumulatorInit
    /\ eca \in ECInputs /\ ecb \in ECInputs /\ ecc \in ECInputs
    /\ ECResultsInit

NextEC ==
    \/ ApplyAverage \/ ApplyIsNan \/ ApplyIsInfinity
    \/ ApplyInfinity \/ ApplyPlusEq \/ ApplyMerge

SpecEC == InitEC /\ [][NextEC]_vars

\* ------------------------------------------------------------------------
\* Properties of the accumulator (checked under Spec)
\* ------------------------------------------------------------------------
\* the contributions of s summed onto e, in call order, in double and
\* size_t arithmetic
RECURSIVE SumContrib(_, _)
SumContrib(e, s) ==
    IF s = <<>> THEN e
    ELSE SumContrib(EpochCriterion(DAdd(e.first, Head(s).first),
                                   SAdd(e.second, Head(s).second)), Tail(s))

IsUpdate(call) == call.op \in {"Add", "Assign"}

\* C1 (accumulate law): a slot that has only been added into since
\* construction holds, and GetCriterion returns, the sum of the values and the
\* sum of the counts of the contributions added; (0, 0) when there are none.
C1_AccumulateLaw ==
    \A i \in Slots :
        ~assigned[i] =>
            /\ GetCriterion(i) = SumContrib(EpochCriterion(Zero, 0), hist[i])
            /\ (lastCall.op = "GetCriterion" /\ lastCall.i = i =>
                    lastCall.result = SumContrib(EpochCriterion(Zero, 0), hist[i]))
            /\ (hist[i] = <<>> => GetCriterion(i) = EpochCriterion(Zero, 0))

C1_Witness ==
    /\ lastCall.op = "GetCriterion"
    /\ ~assigned[lastCall.i]
    /\ Len(hist[lastCall.i]) >= 2
    /\ lastCall.result.first.k = "fin"
    /\ lastCall.result.first.n > MaxMant
    /\ lastCall.result = SumContrib(EpochCriterion(Zero, 0), hist[lastCall.i])

\* C2 (overwrite law): right after Assign of (v, c) into slot i the slot holds
\* exactly (v, c) whatever it held before, and Adds made after that Assign sum
\* onto (v, c).
C2_OverwriteLaw ==
    /\ lastCall.op = "Assign" =>
           GetCriterion(lastCall.i) = Contribution(lastCall.node, lastCall.legacy)
    /\ \A i \in Slots :
           assigned[i] =>
               /\ GetCriterion(i) = SumContrib(base[i], hist[i])
               /\ (lastCall.op = "GetCriterion" /\ lastCall.i = i =>
                       lastCall.result = SumContrib(base[i], hist[i]))

C2_Witness ==
    /\ lastCall.op = "Assign"
    /\ lastCall.before.second # 0
    /\ lastCall.before.first # Zero
    /\ lastCall.before # Contribution(lastCall.node, lastCall.legacy)
    /\ GetCriterion(lastCall.i) = Contribution(lastCall.node, lastCall.legacy)

\* C3 (slot independence): the matrix and the count vector always have the N
\* columns of construction; what slot j holds is determined by the calls
\* addressed to slot j alone; and a step changes the total or the count of
\* slot j only if it is an Add or Assign addressed to slot j.
C3_SlotIndependence ==
    /\ [](/\ DOMAIN m_aggregateCriterionValues = Slots
          /\ DOMAIN m_aggregateSampleCounts = Slots
          /\ \A j \in Slots :
                 GetCriterion(j) = SumContrib(base[j], hist[j]))
    /\ [][\A j \in Slots :
             (\/ m_aggregateCriterionValues'[j] # m_aggregateCriterionValues[j]
              \/ m_aggregateSampleCounts'[j] # m_aggregateSampleCounts[j])
             => (IsUpdate(lastCall') /\ lastCall'.i = j /\ ncalls' = ncalls + 1)]_vars

C3_Witness ==
    /\ IsUpdate(lastCall)
    /\ GetCriterion(lastCall.i) # lastCall.before
    /\ \E j \in Slots : j # lastCall.i /\ GetCriterion(j).first # Zero
                        /\ GetCriterion(j).second # 0

\* C4 (sample-count selection): the count an Add adds to counts[i], and an
\* Assign stores in counts[i], is the layout's actual number of samples when
\* the node has an MBLayout and legacyNumSamples when it has none.
SelectedCount(call) ==
    IF call.node.hasMBLayout THEN call.node.actualNumSamples ELSE call.legacy

C4_SampleCountSelection ==
    /\ lastCall.op = "Assign" =>
           m_aggregateSampleCounts[lastCall.i] = SelectedCount(lastCall)
    /\ lastCall.op = "Add" =>
           m_aggregateSampleCounts[lastCall.i]
               = (lastCall.before.second + SelectedCount(lastCall)) % SizeMod

C4_Witness ==
    /\ lastCall.op = "Add"
    /\ lastCall.node.hasMBLayout
    /\ lastCall.node.actualNumSamples # lastCall.legacy
    /\ lastCall.before.second # 0
    /\ m_aggregateSampleCounts[lastCall.i]
           = (lastCall.before.second + lastCall.node.actualNumSamples) % SizeMod

\* C5 (pure projection): a GetCriterion(i) call leaves the matrix and the
\* count vector as they are, returns the pair held by slot i, and returns the
\* same pair as a GetCriterion(i) call made right before it.
C5_GetCriterionPure ==
    [][lastCall'.op = "GetCriterion" =>
          /\ m_aggregateCriterionValues' = m_aggregateCriterionValues
          /\ m_aggregateSampleCounts' = m_aggregateSampleCounts
          /\ lastCall'.result
                 = EpochCriterion(m_aggregateCriterionValues[lastCall'.i],
                                  m_aggregateSampleCounts[lastCall'.i])
          /\ (lastCall.op = "GetCriterion" /\ lastCall.i = lastCall'.i =>
                  lastCall'.result = lastCall.result)]_vars

C5_Witness ==
    /\ lastCall.op = "GetCriterion"
    /\ lastCall.result.first # Zero
    /\ lastCall.result.second # 0
    /\ lastCall.result = GetCriterion(lastCall.i)
    /\ snapA.valid /\ snapA.i = lastCall.i /\ snapA.ec = lastCall.result

\* the contributions added to the slot of the kept snapshot a since it was
\* taken (an Assign to that slot drops the snapshot)
Between == SubSeq(hist[snapA.i], snapA.pos + 1, Len(hist[snapA.i]))

BetweenSum == SumContrib(EpochCriterion(Zero, 0), Between)

\* C8 (delta law) as stated: with a an earlier and b a later snapshot of slot
\* i and only Adds to slot i in between, b - a is the sum of the contributions
\* added in between, and its Average is their average.
C8_DeltaLaw_AsStated ==
    lastCall.op = "Delta" =>
        /\ lastCall.result = BetweenSum
        /\ Average(lastCall.result) = Average(BetweenSum)

RECURSIVE IntSum(_)
IntSum(s) == IF s = <<>> THEN 0 ELSE Head(s).first.n + IntSum(Tail(s))

ExactInt(x) == Abs(x) \in FinMags

\* the snapshot value and the values added since are finite, and no sum of
\* them, from the snapshot on or among themselves, rounds or overflows
ExactBetween ==
    /\ snapA.ec.first.k = "fin"
    /\ \A k \in 1..Len(Between) :
           /\ Between[k].first.k = "fin"
           /\ ExactInt(snapA.ec.first.n + IntSum(SubSeq(Between, 1, k)))
           /\ ExactInt(IntSum(SubSeq(Between, 1, k)))

\* C8 (delta law) as amended: b - a is the pointwise difference; its count is
\* always the sum of the counts added in between (modulo the width of size_t);
\* its value and its Average are those of the contributions added in between
\* when every sum involved is exact; its Average is 0.0 when the counts added
\* in between sum to 0.
C8_DeltaLaw ==
    lastCall.op = "Delta" =>
        /\ lastCall.result = Minus(lastCall.before, snapA.ec)
        /\ lastCall.result.second = BetweenSum.second
        /\ (ExactBetween =>
                /\ lastCall.result = BetweenSum
                /\ Average(lastCall.result) = Average(BetweenSum))
        /\ (BetweenSum.second = 0 => Average(lastCall.result) = Zero)

C8_Witness ==
    /\ lastCall.op = "Delta"
    /\ Len(Between) >= 1
    /\ ExactBetween
    /\ snapA.ec.first # Zero
    /\ lastCall.result = BetweenSum
    /\ lastCall.result.second # 0

\* C10 (NaN is propagated): an Add or Assign of a NaN value is accepted and
\* leaves slot i NaN and not infinite; a NaN slot stays NaN through every step
\* but an Assign to it; an Assign of a non-NaN value leaves the slot non-NaN;
\* a slot turns NaN only by an Add or Assign addressed to it.
C10_NanPropagated ==
    /\ [](IsUpdate(lastCall) =>
             /\ (lastCall.node.value = NaN =>
                     /\ IsNan(GetCriterion(lastCall.i))
                     /\ ~IsInfinity(GetCriterion(lastCall.i)))
             /\ (lastCall.op = "Assign" /\ lastCall.node.value # NaN =>
                     ~IsNan(GetCriterion(lastCall.i))))
    /\ [][\A j \in Slots :
             /\ (IsNan(GetCriterion(j))
                 /\ ~(lastCall'.op = "Assign" /\ lastCall'.i = j
                      /\ ncalls' = ncalls + 1)
                 => /\ IsNan(GetCriterion(j))'
                    /\ ~IsInfinity(GetCriterion(j))')
             /\ (~IsNan(GetCriterion(j)) /\ IsNan(GetCriterion(j))'
                 => IsUpdate(lastCall') /\ lastCall'.i = j
                    /\ ncalls' = ncalls + 1)]_vars

C10_Witness ==
    /\ lastCall.op = "Add"
    /\ lastCall.node.value = PInf
    /\ IsNan(lastCall.before)
    /\ IsNan(GetCriterion(lastCall.i))
    /\ ~IsInfinity(GetCriterion(lastCall.i))
    /\ \E j \in Slots : j # lastCall.i /\ ~IsNan(GetCriterion(j))

\* ------------------------------------------------------------------------
\* Properties of EpochCriterion (checked under SpecEC)
\* ------------------------------------------------------------------------
\* C6 (guarded average): Average() is 0.0 when the count is 0, whatever the
\* value; when the count is positive it is the quotient of the value by the
\* count: a finite value gives the fraction whose product with the count is
\* the value, a NaN or infinite value gives itself.
C6_GuardedAverage ==
    ecop = "Average" =>
        /\ (eca.second = 0 => ecavg = Zero)
        /\ (eca.second > 0 =>
                /\ ecavg = DDiv(eca.first, ToDouble(eca.second))
                /\ (eca.first.k = "fin" =>
                        /\ ecavg.k = "fin"
                        /\ ecavg.d > 0
                        /\ ecavg.n * ToDouble(eca.second).n = eca.first.n * ecavg.d)
                /\ (eca.first.k # "fin" => ecavg = eca.first))

C6_Witness ==
    /\ ecop = "Average"
    /\ ecorigin = "input"
    /\ eca.second = 0
    /\ eca.first = Fin(MaxFinite)
    /\ ecavg = Zero

\* C7 (infinity sentinel) as stated: Infinity() is (+infinity, 0), IsInfinity()
\* of it is true and Average() of it is +infinity.
C7_InfinitySentinel_AsStated ==
    ecorigin = "Infinity" =>
        /\ eca = EpochCriterion(PInf, 0)
        /\ (ecop = "IsInfinity" => ecflag = TRUE)
        /\ (ecop = "Average" => ecavg = PInf)

\* C7 as amended: Infinity() is (+infinity, 0), IsInfinity() of it is true, it
\* is not NaN, and Average() of it is 0.0, its count being 0.
C7_InfinitySentinel ==
    ecorigin = "Infinity" =>
        /\ eca = EpochCriterion(PInf, 0)
        /\ (ecop = "IsInfinity" => ecflag = TRUE)
        /\ (ecop = "IsNan" => ecflag = FALSE)
        /\ (ecop = "Average" => ecavg = Zero)

C7_Witness ==
    /\ ecorigin = "Infinity"
    /\ ecop = "Average"
    /\ eca.first = PInf
    /\ ecavg = Zero

\* a += b leaves a = (a.value + b.value, a.count + b.count) and b as it was
MergeStepLaw ==
    ecop = "PlusEq" =>
        /\ eca = EpochCriterion(DAdd(ecold[1].first, ecold[2].first),
                                (ecold[1].second + ecold[2].second) % SizeMod)
        /\ ecb = ecold[2]

\* C9 (merge law) as stated: a += b leaves a = (a.value + b.value,
\* a.count + b.count) and b as it was; merging is commutative and associative.
C9_MergeLaw_AsStated ==
    /\ MergeStepLaw
    /\ ecop = "Merge" => (ecm.ab = ecm.ba /\ ecm.ab_c = ecm.a_bc)

\* the three values are finite and none of their sums rounds or overflows
ExactMerge ==
    /\ eca.first.k = "fin" /\ ecb.first.k = "fin" /\ ecc.first.k = "fin"
    /\ ExactInt(eca.first.n + ecb.first.n)
    /\ ExactInt(ecb.first.n + ecc.first.n)
    /\ ExactInt(eca.first.n + ecb.first.n + ecc.first.n)

\* C9 (merge law) as amended: the += law and commutativity hold for all
\* operands; the counts merge associatively; the values merge associatively
\* when no sum of them rounds or overflows.
C9_MergeLaw ==
    /\ MergeStepLaw
    /\ ecop = "Merge" =>
           /\ ecm.ab = ecm.ba
           /\ ecm.ab_c.second = ecm.a_bc.second
           /\ (ExactMerge => ecm.ab_c = ecm.a_bc)

C9_Witness ==
    /\ ecop = "Merge"
    /\ ExactMerge
    /\ eca.first # Zero /\ ecb.first # Zero /\ ecc.first # Zero
    /\ eca.second + ecb.second + ecc.second > SizeMax
    /\ ecm.ab_c = ecm.a_bc
    /\ ecm.ab = ecm.ba

=============================================================================
